---- MODULE Spec2Model ----
(***************************************************************************)
(* Agentic Sitemap: the Next.js dashboard (page.tsx, ProductCard,          *)
(* ScrapeForm, ComparePanel, SitemapViewer), the POST /api/scrape route    *)
(* handler, and the contract of the FastAPI backend they call.             *)
(*                                                                         *)
(* Text is a sequence of one-character strings, so that trim() is          *)
(* computed.  Confidence is a rational number of thousandths (0.15 is 150).*)
(* Time in the route handler is in milliseconds.                           *)
(***************************************************************************)
EXTENDS Integers, Sequences, FiniteSets, TLC

(***************************************************************************)
(* Bounds of the model                                                     *)
(***************************************************************************)
\* invocations of runComparison explored
MaxCompares == 3
\* inbound POST /api/scrape requests the route handler serves
MaxInbound == 3
\* scrape requests issued by the form and the cards
MaxScrapes == 2
\* delete requests issued by the cards
MaxDeletes == 1
\* generations the backend performs
MaxGenerates == 2
\* minutes the backend's clock advances
MaxWallClock == 1

(***************************************************************************)
(* Text                                                                    *)
(***************************************************************************)
Whitespace == {" "}

RECURSIVE TrimStart(_)
TrimStart(s) ==
    IF s = <<>> THEN <<>>
    ELSE IF Head(s) \in Whitespace THEN TrimStart(Tail(s))
    ELSE s

RECURSIVE TrimEnd(_)
TrimEnd(s) ==
    IF s = <<>> THEN <<>>
    ELSE IF s[Len(s)] \in Whitespace THEN TrimEnd(SubSeq(s, 1, Len(s) - 1))
    ELSE s

\* String.prototype.trim
Trim(s) == TrimEnd(TrimStart(s))

\* JavaScript truthiness of a string
Truthy(s) == s # <<>>

(***************************************************************************)
(* State                                                                   *)
(***************************************************************************)
VARIABLES
    activeTab,      \* Home: the tab shown
    question,       \* ComparePanel: the question input
    result,         \* ComparePanel: the comparison shown, or NoResult
    isLoading,      \* ComparePanel: the loading flag
    error,          \* ComparePanel: the error text shown
    cmpReqs,        \* POST /api/compare requests in flight
    cmpHist,        \* history: invocations of runComparison and their fate
    pxPhase,        \* route handler POST: where the current request stands
    pxBody,         \* route handler POST: the inbound request body
    pxElapsed,      \* milliseconds since the backend fetch was started
    pxCalls,        \* backend fetches started for the current request
    pxRes,          \* the backend response (res), once its headers arrived
    pxErr,          \* the name of the error caught, if any
    pxReply,        \* the response returned to the caller
    pxServed,       \* inbound requests answered so far
    url,            \* ScrapeForm: the URL input
    status,         \* ScrapeForm: idle, loading, success or error
    message,        \* ScrapeForm: the message shown
    timers,         \* ScrapeForm: pending setTimeout(4000) callbacks
    products,       \* Home: the product list shown
    cardState,      \* ProductCard: state of the card of each product shown
    scrapeReqs,     \* POST /api/scrape requests in flight
    delReqs,        \* DELETE /api/products/{id} requests in flight
    listSent,       \* GET /api/products requests the backend has not served
    listAnswers,    \* GET /api/products responses on their way back
    store,          \* backend: the Product Store
    now,            \* backend: the clock that stamps updated_at
    nextId,         \* backend: the next product id
    hist,           \* history: requests issued, failures handled silently
    sitemap,        \* Home: the generated artifacts shown, or NoSitemap
    isGenerating,   \* Home: the generating flag
    generateError,  \* Home: the generate error text shown
    genReq,         \* the POST /api/generate request in flight, if any
    wallClock,      \* backend: the time of day, in minutes
    gens,           \* history: the generations made, the last one and its input
    cardProduct,    \* ProductCard: the product prop
    cardView        \* ProductCard: what the card renders for it

cmpVars == <<question, result, isLoading, error, cmpReqs, cmpHist>>
pxVars == <<pxPhase, pxBody, pxElapsed, pxCalls, pxRes, pxErr, pxReply, pxServed>>
formVars == <<url, status, message, timers>>
cardVars == <<products, cardState>>
netVars == <<scrapeReqs, delReqs, listSent, listAnswers>>
backendVars == <<store, now, nextId>>
scrapeVars == <<formVars, cardVars, netVars, backendVars, hist>>
genVars == <<sitemap, isGenerating, generateError, genReq, wallClock, gens>>
viewVars == <<cardProduct, cardView>>
vars == <<activeTab, cmpVars, pxVars, scrapeVars, genVars, viewVars>>
outsideCompare == <<pxVars, scrapeVars, genVars, viewVars>>
outsideProxy == <<activeTab, cmpVars, scrapeVars, genVars, viewVars>>
outsideProducts == <<activeTab, cmpVars, pxVars, genVars, viewVars>>

(***************************************************************************)
(* Home: tabs                                                              *)
(***************************************************************************)
TABS == {"products", "sitemap", "proof"}

(***************************************************************************)
(* ComparePanel                                                            *)
(***************************************************************************)
SAMPLE_QUESTIONS == {<<"b">>, <<"g">>}

\* what the user can type into the question input
TypedQuestions == {<<>>, <<" ">>, <<"q">>, <<" ", "q">>, <<"q", " ">>}

NoResult == [kind |-> "none"]

MsgCompareFailed == <<"Comparison failed.">>
MsgCannotReach == <<"Cannot reach the backend. Is it running on :8000?">>
DetailText == <<"detail">>

\* The body of a successful POST /compare: both sides answer the question
\* that was sent.
CompareResult(q) ==
    [kind |-> "comparison",
     question |-> q,
     without_context |-> [answer |-> <<"baseline">> \o q, tokens_used |-> Len(q)],
     with_context |-> [answer |-> <<"grounded">> \o q, tokens_used |-> Len(q) + 1]]

\* The responses fetch("/api/compare") can produce for a request
CompareOutcomes ==
    { [ok |-> TRUE, json |-> TRUE, detail |-> <<>>],
      [ok |-> TRUE, json |-> FALSE, detail |-> <<>>],
      [ok |-> FALSE, json |-> TRUE, detail |-> DetailText],
      [ok |-> FALSE, json |-> TRUE, detail |-> <<>>],
      [ok |-> FALSE, json |-> FALSE, detail |-> <<>>],
      [ok |-> FALSE, json |-> TRUE, detail |-> <<"unreachable">>] }

\* fetch() rejects: no response at all
IsTransportFailure(o) == o.detail = <<"unreachable">>

CmpInit ==
    /\ question = <<>>
    /\ result = NoResult
    /\ isLoading = FALSE
    /\ error = <<>>
    /\ cmpReqs = {}
    /\ cmpHist = [blank |-> 0, nonblank |-> 0, sent |-> 0, failed |-> {}, succeeded |-> {}]

CmpInvocations == cmpHist.blank + cmpHist.nonblank

SetQuestion(q) ==
    /\ activeTab = "proof"
    /\ question # q
    /\ question' = q
    /\ UNCHANGED <<activeTab, result, isLoading, error, cmpReqs, cmpHist>>
    /\ UNCHANGED outsideCompare

\* empty or whitespace-only: what the contract calls a blank question
IsBlank(q) == \A i \in 1..Len(q) : q[i] \in Whitespace

\* runComparison, line 33: the early return
RunComparisonGuardNoTrim(q) == Truthy(q)
RunComparisonGuard(q) == Truthy(Trim(q))

\* runComparison up to its await: the guard, the three setters, the fetch
RunComparison(q) ==
    /\ CmpInvocations < MaxCompares
    /\ cmpHist' = [cmpHist EXCEPT
                     !.blank = IF IsBlank(q) THEN @ + 1 ELSE @,
                     !.nonblank = IF IsBlank(q) THEN @ ELSE @ + 1,
                     !.sent = IF RunComparisonGuard(q) THEN @ + 1 ELSE @]
    /\ IF ~RunComparisonGuard(q)
       THEN UNCHANGED <<isLoading, error, result, cmpReqs>>
       ELSE /\ isLoading' = TRUE
            /\ error' = <<>>
            /\ result' = NoResult
            /\ cmpReqs' = cmpReqs \cup
                 {[id |-> cmpHist.sent + 1, question |-> Trim(q), q |-> q, live |-> TRUE]}

\* the "Run Comparison" button
ClickRunComparison ==
    /\ activeTab = "proof"
    /\ Truthy(Trim(question)) /\ ~isLoading
    /\ RunComparison(question)
    /\ UNCHANGED <<activeTab, question, outsideCompare>>

\* Enter in the question input
EnterRunComparison ==
    /\ activeTab = "proof"
    /\ RunComparison(question)
    /\ UNCHANGED <<activeTab, question, outsideCompare>>

\* a sample-question button
ClickSampleQuestion(q) ==
    /\ activeTab = "proof"
    /\ ~isLoading
    /\ question' = q
    /\ RunComparison(q)
    /\ UNCHANGED <<activeTab, outsideCompare>>

\* runComparison, lines 46-51: what the response does to result
ResultAfterNoOkCheck(r, o, prev) ==
    IF o.ok THEN CompareResult(r.question) @@ [req |-> r.id]
    ELSE [kind |-> "comparison", detail |-> o.detail, req |-> r.id]
ResultAfter(r, o, prev) ==
    IF o.ok THEN CompareResult(r.question) @@ [req |-> r.id]
    ELSE prev

\* runComparison after its await: the response handler
CompareSettled(r, o) ==
    /\ r \in cmpReqs
    /\ cmpReqs' = cmpReqs \ {r}
    /\ IF ~r.live
       THEN \* the panel that started the request is unmounted
            UNCHANGED <<question, result, isLoading, error, cmpHist>>
       ELSE /\ isLoading' = FALSE
            /\ IF IsTransportFailure(o) \/ ~o.json
               THEN /\ error' = MsgCannotReach
                    /\ cmpHist' = [cmpHist EXCEPT !.failed = @ \cup {r.id}]
                    /\ UNCHANGED <<result, question>>
               ELSE /\ result' = ResultAfter(r, o, result)
                    /\ IF o.ok
                       THEN /\ question' = r.q
                            /\ cmpHist' = [cmpHist EXCEPT !.succeeded = @ \cup {r.id}]
                            /\ UNCHANGED error
                       ELSE /\ error' = IF Truthy(o.detail) THEN o.detail
                                        ELSE MsgCompareFailed
                            /\ cmpHist' = [cmpHist EXCEPT !.failed = @ \cup {r.id}]
                            /\ UNCHANGED question
    /\ UNCHANGED <<activeTab, outsideCompare>>

\* ComparePanel is rendered only on the proof tab: its state is created on
\* entering the tab and dropped on leaving it
ComparePanelRemount ==
    /\ question' = <<>>
    /\ result' = NoResult
    /\ isLoading' = FALSE
    /\ error' = <<>>
    /\ cmpReqs' = {[r EXCEPT !.live = FALSE] : r \in cmpReqs}
    /\ UNCHANGED cmpHist

(***************************************************************************)
(* Route handler POST /api/scrape                                          *)
(***************************************************************************)
\* AbortSignal.timeout(120_000)
ProxyTimeoutMs == 120000
\* the socket timeout of the rewrite proxy this handler replaces; time
\* advances in steps of this size
RewriteTimeoutMs == 30000

DetailTimedOut == <<"Scrape timed out after 2 minutes. The page took too long to load.">>

\* inbound bodies: request.json() succeeds or throws
InboundBodies ==
    { [valid |-> TRUE, url |-> <<"a">>, force_refresh |-> FALSE],
      [valid |-> TRUE, url |-> <<"a">>, force_refresh |-> TRUE],
      [valid |-> FALSE, url |-> <<>>, force_refresh |-> FALSE] }

BackendStatuses == {200, 422, 500}
NoRes == [status |-> 0, json |-> FALSE, data |-> <<>>]
NoReply == [status |-> 0, detail |-> <<>>, data |-> <<>>]

PxInit ==
    /\ pxPhase = "idle"
    /\ pxBody = [valid |-> FALSE, url |-> <<>>, force_refresh |-> FALSE]
    /\ pxElapsed = 0
    /\ pxCalls = 0
    /\ pxRes = NoRes
    /\ pxErr = "none"
    /\ pxReply = NoReply
    /\ pxServed = 0

\* POST, lines 28-35: the catch block
CatchReplyAbortError(errName) ==
    IF errName = "AbortError"
    THEN [status |-> 408, detail |-> DetailTimedOut, data |-> <<>>]
    ELSE [status |-> 502, detail |-> <<errName>>, data |-> <<>>]
CatchReply(errName) ==
    IF errName = "TimeoutError"
    THEN [status |-> 408, detail |-> DetailTimedOut, data |-> <<>>]
    ELSE [status |-> 502, detail |-> <<errName>>, data |-> <<>>]

\* POST, lines 13-24: an inbound request arrives; its body is parsed and the
\* backend fetch is started.  A body that is not JSON throws outside the try
\* block and the framework answers 500.
ProxyReceive(b) ==
    /\ pxPhase \in {"idle", "done"}
    /\ pxServed < MaxInbound
    /\ pxBody' = b
    /\ pxElapsed' = 0
    /\ pxRes' = NoRes
    /\ IF b.valid
       THEN /\ pxPhase' = "fetching"
            /\ pxCalls' = 1
            /\ pxErr' = "none"
            /\ pxReply' = NoReply
            /\ UNCHANGED pxServed
       ELSE /\ pxPhase' = "done"
            /\ pxCalls' = 0
            /\ pxErr' = "SyntaxError(request)"
            /\ pxReply' = [status |-> 500, detail |-> <<>>, data |-> <<>>]
            /\ pxServed' = pxServed + 1
    /\ UNCHANGED outsideProxy

\* time passes while the backend call is pending
ProxyTick ==
    /\ pxPhase \in {"fetching", "reading"}
    /\ pxElapsed < ProxyTimeoutMs
    /\ pxElapsed' = pxElapsed + RewriteTimeoutMs
    /\ UNCHANGED <<pxPhase, pxBody, pxCalls, pxRes, pxErr, pxReply, pxServed>>
    /\ UNCHANGED outsideProxy

\* line 17: fetch resolves with the backend's status line
ProxyBackendAnswers(st, isJson) ==
    /\ pxPhase = "fetching"
    /\ pxElapsed < ProxyTimeoutMs
    /\ pxPhase' = "reading"
    /\ pxRes' = [status |-> st, json |-> isJson, data |-> <<"body", pxBody.url>>]
    /\ UNCHANGED <<pxBody, pxElapsed, pxCalls, pxErr, pxReply, pxServed>>
    /\ UNCHANGED outsideProxy

\* line 17: fetch rejects, the backend cannot be reached
ProxyBackendUnreachable ==
    /\ pxPhase = "fetching"
    /\ pxElapsed < ProxyTimeoutMs
    /\ pxPhase' = "done"
    /\ pxErr' = "TypeError"
    /\ pxReply' = CatchReply("TypeError")
    /\ pxServed' = pxServed + 1
    /\ UNCHANGED <<pxBody, pxElapsed, pxCalls, pxRes>>
    /\ UNCHANGED outsideProxy

\* the reply built without { status: res.status }: NextResponse.json's
\* default status 200
ProxyReadBodyDefaultStatus ==
    /\ pxPhase = "reading"
    /\ pxElapsed < ProxyTimeoutMs
    /\ pxPhase' = "done"
    /\ IF pxRes.json
       THEN /\ pxErr' = "none"
            /\ pxReply' = [status |-> 200, detail |-> <<>>, data |-> pxRes.data]
       ELSE /\ pxErr' = "SyntaxError"
            /\ pxReply' = CatchReply("SyntaxError")
    /\ pxServed' = pxServed + 1
    /\ UNCHANGED <<pxBody, pxElapsed, pxCalls, pxRes>>
    /\ UNCHANGED outsideProxy

\* lines 26-27: res.json() and the reply with the backend's status
ProxyReadBody ==
    /\ pxPhase = "reading"
    /\ pxElapsed < ProxyTimeoutMs
    /\ pxPhase' = "done"
    /\ IF pxRes.json
       THEN /\ pxErr' = "none"
            /\ pxReply' = [status |-> pxRes.status, detail |-> <<>>, data |-> pxRes.data]
       ELSE /\ pxErr' = "SyntaxError"
            /\ pxReply' = CatchReply("SyntaxError")
    /\ pxServed' = pxServed + 1
    /\ UNCHANGED <<pxBody, pxElapsed, pxCalls, pxRes>>
    /\ UNCHANGED outsideProxy

\* line 23: the abort signal fires, the pending fetch or body read rejects
\* with a TimeoutError
ProxyTimeout ==
    /\ pxPhase \in {"fetching", "reading"}
    /\ pxElapsed >= ProxyTimeoutMs
    /\ pxPhase' = "done"
    /\ pxErr' = "TimeoutError"
    /\ pxReply' = CatchReply("TimeoutError")
    /\ pxServed' = pxServed + 1
    /\ UNCHANGED <<pxBody, pxElapsed, pxCalls, pxRes>>
    /\ UNCHANGED outsideProxy

NextProxy ==
    \/ \E b \in InboundBodies : ProxyReceive(b)
    \/ ProxyTick
    \/ \E st \in BackendStatuses, j \in BOOLEAN : ProxyBackendAnswers(st, j)
    \/ ProxyBackendUnreachable
    \/ ProxyReadBody
    \/ ProxyTimeout

(***************************************************************************)
(* Backend: Product Store and scrape pipeline (the contract of POST        *)
(* /scrape, GET /products and DELETE /products/{id})                       *)
(***************************************************************************)
\* lower-casing of the characters the model's URLs are written in
LowerCase(c) == IF c = "A" THEN "a" ELSE IF c = "B" THEN "b" ELSE c

RECURSIVE StripQuery(_)
StripQuery(u) ==
    IF u = <<>> THEN <<>>
    ELSE IF Head(u) \in {"?", "#"} THEN <<>>
    ELSE <<LowerCase(Head(u))>> \o StripQuery(Tail(u))

\* the dedup key: tracking parameters and fragment stripped, lower-cased
Normalize(u) == StripQuery(Trim(u))

Indexed(nurl) == {p \in store : p.url = nurl}

RECURSIVE SortById(_)
SortById(S) ==
    IF S = {} THEN <<>>
    ELSE LET m == CHOOSE p \in S : \A q \in S : p.id <= q.id
         IN <<m>> \o SortById(S \ {m})

\* list(): the products in ascending id, as the dashboard's Product type
ListProducts == SortById({[id |-> p.id, url |-> p.url] : p \in store})

\* the outcomes of one run of the scrape pipeline
PipelineOutcomes == {"ok", "fetch_failed", "llm_failed"}

NoGhost == [wasIndexed |-> FALSE, sumCalls |-> 0, updBefore |-> 0, updAfter |-> 0,
            countBefore |-> 0, countAfter |-> 0, idBefore |-> 0, idAfter |-> 0]
NoScrapeReply == [ok |-> FALSE, status |-> 0, cached |-> FALSE, detail |-> <<>>]

\* scrapeAndIndex(url, force_refresh) as the store contract states it
ScrapeEffect(r, outcome) ==
    LET nurl == Normalize(r.url)
        old == Indexed(nurl)
        hit == old # {} /\ ~r.force
        wrote == ~hit /\ outcome = "ok"
        oldp == CHOOSE p \in old : TRUE
        newp == IF old # {}
                THEN [oldp EXCEPT !.updated_at = now + 1]
                ELSE [id |-> nextId, url |-> nurl, created_at |-> now + 1,
                      updated_at |-> now + 1]
        store2 == IF wrote THEN (store \ old) \cup {newp} ELSE store
    IN [store |-> store2,
        now |-> IF wrote THEN now + 1 ELSE now,
        nextId |-> IF wrote /\ old = {} THEN nextId + 1 ELSE nextId,
        reply |-> IF hit THEN [ok |-> TRUE, status |-> 200, cached |-> TRUE, detail |-> <<>>]
                  ELSE IF outcome = "ok"
                  THEN [ok |-> TRUE, status |-> 200, cached |-> FALSE, detail |-> <<>>]
                  ELSE [ok |-> FALSE, status |-> 502, cached |-> FALSE, detail |-> <<outcome>>],
        ghost |-> [wasIndexed |-> old # {},
                   sumCalls |-> IF hit \/ outcome = "fetch_failed" THEN 0 ELSE 1,
                   updBefore |-> IF old # {} THEN oldp.updated_at ELSE 0,
                   updAfter |-> IF wrote THEN now + 1
                                ELSE IF old # {} THEN oldp.updated_at ELSE 0,
                   countBefore |-> Cardinality(store),
                   countAfter |-> Cardinality(store2),
                   idBefore |-> IF old # {} THEN oldp.id ELSE 0,
                   idAfter |-> IF wrote THEN newp.id
                               ELSE IF old # {} THEN oldp.id ELSE 0]]

(***************************************************************************)
(* ScrapeForm                                                              *)
(***************************************************************************)
DEMO_URLS == {<<"a">>, <<"B", "?", "g">>}

\* what the user can type into the URL input
TypedUrls == {<<>>, <<" ">>, <<" ", "a">>}

MsgAlreadyIndexed == <<"Already indexed">>
MsgIndexed == <<"Indexed">>
MsgIndexingFailed == <<"Indexing failed.">>

ScrapeInit ==
    /\ url = <<>>
    /\ status = "idle"
    /\ message = <<>>
    /\ timers = 0
    /\ products = <<>>
    /\ cardState = <<>>
    /\ scrapeReqs = {}
    /\ delReqs = {}
    /\ listSent = 1
    /\ listAnswers = {}
    /\ store = {}
    /\ now = 0
    /\ nextId = 1
    /\ hist = [scrapes |-> 0, deletes |-> 0, silent |-> {}]

\* fetchProducts up to its await
FetchProducts == listSent' = listSent + 1

SetUrl(u) ==
    /\ activeTab = "products"
    /\ url # u
    /\ url' = u
    /\ UNCHANGED <<status, message, timers, cardVars, netVars, backendVars, hist>>
    /\ UNCHANGED outsideProducts

\* handleSubmit, line 38: the request body carries no force_refresh
FormForceRefreshTrue == TRUE
FormForceRefresh == FALSE

ScrapeRequest(src, card, u, force) ==
    [id |-> hist.scrapes + 1, src |-> src, card |-> card, url |-> u, force |-> force,
     phase |-> "sent", live |-> TRUE, reply |-> NoScrapeReply, ghost |-> NoGhost]

\* handleSubmit up to its await
HandleSubmit(targetUrl) ==
    IF ~Truthy(Trim(targetUrl))
    THEN UNCHANGED <<status, message, scrapeReqs, hist>>
    ELSE /\ hist.scrapes < MaxScrapes
         /\ status' = "loading"
         /\ message' = <<>>
         /\ scrapeReqs' = scrapeReqs \cup
               {ScrapeRequest("form", 0, Trim(targetUrl), FormForceRefresh)}
         /\ hist' = [hist EXCEPT !.scrapes = @ + 1]

\* the "Scrape + Index" button
ClickSubmit ==
    /\ activeTab = "products"
    /\ Truthy(Trim(url)) /\ status # "loading"
    /\ HandleSubmit(url)
    /\ UNCHANGED <<url, timers, cardVars, delReqs, listSent, listAnswers, backendVars>>
    /\ UNCHANGED outsideProducts

\* Enter in the URL input
EnterSubmit ==
    /\ activeTab = "products"
    /\ HandleSubmit(url)
    /\ UNCHANGED <<url, timers, cardVars, delReqs, listSent, listAnswers, backendVars>>
    /\ UNCHANGED outsideProducts

\* a demo-URL button
ClickDemoUrl(d) ==
    /\ activeTab = "products"
    /\ status # "loading"
    /\ HandleSubmit(d)
    /\ UNCHANGED <<url, timers, cardVars, delReqs, listSent, listAnswers, backendVars>>
    /\ UNCHANGED outsideProducts

(***************************************************************************)
(* The path of a scrape request: browser, route handler, backend           *)
(***************************************************************************)
\* the backend serves POST /scrape
BackendScrape(r, outcome) ==
    /\ r \in scrapeReqs
    /\ r.phase = "sent"
    /\ LET e == ScrapeEffect(r, outcome)
       IN /\ store' = e.store
          /\ now' = e.now
          /\ nextId' = e.nextId
          /\ scrapeReqs' = (scrapeReqs \ {r}) \cup
                {[r EXCEPT !.phase = "answered", !.reply = e.reply, !.ghost = e.ghost]}
    /\ UNCHANGED <<formVars, cardVars, delReqs, listSent, listAnswers, hist>>
    /\ UNCHANGED outsideProducts

\* how the route handler can end for a request: it forwards the backend's
\* answer, its abort signal fires, or the backend cannot be reached; and the
\* browser's own fetch can fail
Deliveries(r) ==
    IF r.phase = "answered" THEN {"forward", "timeout", "transport"}
    ELSE {"timeout", "unreachable", "transport"}

\* what fetch("/api/scrape") resolves to in the browser
Seen(r, d) ==
    IF d = "forward"
    THEN [thrown |-> FALSE, ok |-> r.reply.ok, cached |-> r.reply.cached,
          detail |-> r.reply.detail]
    ELSE IF d = "transport"
    THEN [thrown |-> TRUE, ok |-> FALSE, cached |-> FALSE, detail |-> <<>>]
    ELSE LET c == CatchReply(IF d = "timeout" THEN "TimeoutError" ELSE "TypeError")
         IN [thrown |-> FALSE, ok |-> FALSE, cached |-> FALSE, detail |-> c.detail]

\* handleSubmit, lines 46-50: the message of a successful scrape
SuccessMessage(seen) == IF seen.cached THEN MsgAlreadyIndexed ELSE MsgIndexed

\* handleSubmit after its await
FormSettled(r, d) ==
    /\ r \in scrapeReqs
    /\ r.src = "form"
    /\ d \in Deliveries(r)
    /\ scrapeReqs' = scrapeReqs \ {r}
    /\ LET seen == Seen(r, d)
       IN /\ IF seen.ok THEN FetchProducts ELSE UNCHANGED listSent
          /\ IF ~r.live
             THEN UNCHANGED formVars
             ELSE /\ timers' = timers + 1
                  /\ IF seen.thrown
                     THEN /\ status' = "error"
                          /\ message' = MsgCannotReach
                          /\ UNCHANGED url
                     ELSE IF seen.ok
                     THEN /\ status' = "success"
                          /\ message' = SuccessMessage(seen)
                          /\ url' = <<>>
                     ELSE /\ status' = "error"
                          /\ message' = IF Truthy(seen.detail) THEN seen.detail
                                        ELSE MsgIndexingFailed
                          /\ UNCHANGED url
    /\ UNCHANGED <<cardVars, delReqs, listAnswers, backendVars, hist>>
    /\ UNCHANGED outsideProducts

\* handleSubmit, line 62: a reset timer fires
TimerFires ==
    /\ timers > 0
    /\ timers' = timers - 1
    /\ status' = "idle"
    /\ UNCHANGED <<url, message, cardVars, netVars, backendVars, hist>>
    /\ UNCHANGED outsideProducts

\* what the form renders: the message line is there when message is not
\* empty, green when status is "success" and red otherwise; the buttons'
\* disabled attributes
MessageShown == Truthy(message)
MessageStyle == IF status = "success" THEN "text-green-400" ELSE "text-red-400"
SubmitDisabled == ~Truthy(Trim(url)) \/ status = "loading"
DemoDisabled == status = "loading"

(***************************************************************************)
(* ProductCard                                                             *)
(***************************************************************************)
ShownIds == {products[i].id : i \in 1..Len(products)}
ShownUrl(pid) == (CHOOSE i \in 1..Len(products) : products[i].id = pid)

\* handleRescrape, line 275: the request body
CardForceRefreshFalse == FALSE
CardForceRefresh == TRUE

\* handleRescrape up to its await
HandleRescrape(pid) ==
    /\ activeTab = "products"
    /\ pid \in DOMAIN cardState
    /\ cardState[pid] = "idle"
    /\ hist.scrapes < MaxScrapes
    /\ cardState' = [cardState EXCEPT ![pid] = "scraping"]
    /\ scrapeReqs' = scrapeReqs \cup
          {ScrapeRequest("card", pid, products[ShownUrl(pid)].url, CardForceRefresh)}
    /\ hist' = [hist EXCEPT !.scrapes = @ + 1]
    /\ UNCHANGED <<formVars, products, delReqs, listSent, listAnswers, backendVars>>
    /\ UNCHANGED outsideProducts

\* handleRescrape after its await
RescrapeSettled(r, d) ==
    /\ r \in scrapeReqs
    /\ r.src = "card"
    /\ d \in Deliveries(r)
    /\ scrapeReqs' = scrapeReqs \ {r}
    /\ LET seen == Seen(r, d)
       IN /\ IF seen.ok THEN FetchProducts ELSE UNCHANGED listSent
          /\ hist' = IF seen.ok THEN hist
                     ELSE [hist EXCEPT !.silent = @ \cup {"re-scrape"}]
    /\ cardState' = IF r.live THEN [cardState EXCEPT ![r.card] = "idle"] ELSE cardState
    /\ UNCHANGED <<formVars, products, delReqs, listAnswers, backendVars>>
    /\ UNCHANGED outsideProducts

\* handleDelete up to its await
HandleDelete(pid) ==
    /\ activeTab = "products"
    /\ pid \in DOMAIN cardState
    /\ cardState[pid] = "idle"
    /\ hist.deletes < MaxDeletes
    /\ cardState' = [cardState EXCEPT ![pid] = "deleting"]
    /\ delReqs' = delReqs \cup
          {[id |-> hist.deletes + 1, card |-> pid, phase |-> "sent", live |-> TRUE,
            ok |-> FALSE]}
    /\ hist' = [hist EXCEPT !.deletes = @ + 1]
    /\ UNCHANGED <<formVars, products, scrapeReqs, listSent, listAnswers, backendVars>>
    /\ UNCHANGED outsideProducts

\* the backend serves DELETE /products/{id}: ok, NotFound, or a failure
BackendDelete(r, fails) ==
    /\ r \in delReqs
    /\ r.phase = "sent"
    /\ LET found == {p \in store : p.id = r.card}
       IN /\ store' = IF fails THEN store ELSE store \ found
          /\ delReqs' = (delReqs \ {r}) \cup
                {[r EXCEPT !.phase = "answered", !.ok = ~fails /\ found # {}]}
    /\ UNCHANGED <<formVars, cardVars, scrapeReqs, listSent, listAnswers, now, nextId, hist>>
    /\ UNCHANGED outsideProducts

\* handleDelete after its await: a response of any status, or fetch rejects
DeleteSettled(r, thrown) ==
    /\ r \in delReqs
    /\ thrown \/ r.phase = "answered"
    /\ delReqs' = delReqs \ {r}
    /\ IF thrown
       THEN /\ cardState' = IF r.live THEN [cardState EXCEPT ![r.card] = "idle"]
                            ELSE cardState
            /\ hist' = [hist EXCEPT !.silent = @ \cup {"delete"}]
            /\ UNCHANGED listSent
       ELSE /\ FetchProducts
            /\ hist' = IF r.ok THEN hist
                       ELSE [hist EXCEPT !.silent = @ \cup {"delete"}]
            /\ UNCHANGED cardState
    /\ UNCHANGED <<formVars, products, scrapeReqs, listAnswers, backendVars>>
    /\ UNCHANGED outsideProducts

(***************************************************************************)
(* Home: fetchProducts                                                     *)
(***************************************************************************)
\* the backend serves GET /products, or fails to
BackendList(fails) ==
    /\ listSent > 0
    /\ listSent' = listSent - 1
    /\ listAnswers' = listAnswers \cup
          {IF fails THEN [ok |-> FALSE, products |-> <<>>]
           ELSE [ok |-> TRUE, products |-> ListProducts]}
    /\ UNCHANGED <<formVars, cardVars, scrapeReqs, delReqs, backendVars, hist>>
    /\ UNCHANGED outsideProducts

\* cards are keyed by product id: a card keeps its state while its product
\* stays in the list, a new product gets a new card
CardsFor(ps, old) ==
    [pid \in {ps[i].id : i \in 1..Len(ps)} |->
        IF pid \in DOMAIN old THEN old[pid] ELSE "idle"]

\* fetchProducts after its await
ListSettled(a) ==
    /\ a \in listAnswers
    /\ listAnswers' = listAnswers \ {a}
    /\ IF a.ok
       THEN /\ products' = a.products
            /\ cardState' = CardsFor(a.products, cardState)
            /\ scrapeReqs' = {IF r.src = "card" /\ r.card \notin DOMAIN cardState'
                              THEN [r EXCEPT !.live = FALSE] ELSE r : r \in scrapeReqs}
            /\ delReqs' = {IF r.card \notin DOMAIN cardState'
                           THEN [r EXCEPT !.live = FALSE] ELSE r : r \in delReqs}
            /\ UNCHANGED hist
       ELSE /\ hist' = [hist EXCEPT !.silent = @ \cup {"list products"}]
            /\ UNCHANGED <<products, cardState, scrapeReqs, delReqs>>
    /\ UNCHANGED <<formVars, listSent, backendVars>>
    /\ UNCHANGED outsideProducts

\* fetch("/api/products") rejects: the catch block ignores it
ListUnreachable ==
    /\ listSent > 0
    /\ listSent' = listSent - 1
    /\ hist' = [hist EXCEPT !.silent = @ \cup {"list products"}]
    /\ UNCHANGED <<formVars, cardVars, scrapeReqs, delReqs, listAnswers, backendVars>>
    /\ UNCHANGED outsideProducts

\* ScrapeForm and the cards are rendered only on the products tab: their
\* state is created on entering the tab and dropped on leaving it; what the
\* dropped components still have in flight completes without them
ProductsTabRemount ==
    /\ url' = <<>>
    /\ status' = "idle"
    /\ message' = <<>>
    /\ timers' = 0
    /\ cardState' = [pid \in DOMAIN cardState |-> "idle"]
    /\ scrapeReqs' = {[r EXCEPT !.live = FALSE] : r \in scrapeReqs}
    /\ delReqs' = {[r EXCEPT !.live = FALSE] : r \in delReqs}
    /\ UNCHANGED <<products, listSent, listAnswers, backendVars, hist>>

(***************************************************************************)
(* Backend: Artifact Generator (the contract of POST /generate and the     *)
(* llms.txt format of the README)                                          *)
(***************************************************************************)
Line(k, n, u) == [k |-> k, n |-> n, u |-> u]

\* one section per product: its name as a link to its URL
Sections(ps) == [i \in 1..Len(ps) |-> Line("### product", ps[i].id, ps[i].url)]

\* llms.txt: the title, the header block with the generation time and the
\* product count, then the sections
GenerateLlmsTxt(ps, t) ==
    << Line("# Agentic Sitemap - Product Intelligence Layer", 0, <<>>),
       Line("> Generated:", t, <<>>),
       Line("> Products Indexed:", Len(ps), <<>>),
       Line("## Indexed Products", 0, <<>>) >> \o Sections(ps)

\* agent-map.json: the same data as an array of objects
GenerateAgentMap(ps) == [i \in 1..Len(ps) |-> [id |-> ps[i].id, url |-> ps[i].url]]

(***************************************************************************)
(* Home: handleGenerate                                                    *)
(***************************************************************************)
NoSitemap == [kind |-> "none"]
NoGen == [valid |-> FALSE, input |-> {}, llms_txt |-> <<>>]
NoGenReq == [phase |-> "none", ok |-> FALSE, detail |-> <<>>, llms_txt |-> <<>>,
             agent_map |-> <<>>]

MsgGenerationFailed == <<"Generation failed.">>
MsgCannotReachBackend == <<"Cannot reach the backend.">>

GenInit ==
    /\ sitemap = NoSitemap
    /\ isGenerating = FALSE
    /\ generateError = <<>>
    /\ genReq = NoGenReq
    /\ wallClock = 0
    /\ gens = [count |-> 0, last |-> NoGen]

\* handleGenerate up to its await
HandleGenerate ==
    /\ gens.count < MaxGenerates
    /\ isGenerating' = TRUE
    /\ generateError' = <<>>
    /\ genReq' = [NoGenReq EXCEPT !.phase = "sent"]
    /\ UNCHANGED <<sitemap, wallClock, gens>>
    /\ UNCHANGED <<activeTab, cmpVars, pxVars, scrapeVars, viewVars>>

\* the header's "Generate llms.txt" button
ClickHeaderGenerate ==
    /\ ~(Len(products) = 0 \/ isGenerating)
    /\ HandleGenerate

\* the products tab's "Generate sitemap" link
ClickProductsGenerate ==
    /\ activeTab = "products"
    /\ Len(products) # 0
    /\ ~isGenerating
    /\ HandleGenerate

\* SitemapViewer's Generate and Regenerate buttons
ClickSitemapGenerate ==
    /\ activeTab = "sitemap"
    /\ ~isGenerating
    /\ HandleGenerate

\* time passes
ClockTick ==
    /\ wallClock < MaxWallClock
    /\ wallClock' = wallClock + 1
    /\ UNCHANGED <<sitemap, isGenerating, generateError, genReq, gens>>
    /\ UNCHANGED <<activeTab, cmpVars, pxVars, scrapeVars, viewVars>>

\* the backend serves POST /generate from the products in the store
BackendGenerate(fails) ==
    /\ genReq.phase = "sent"
    /\ IF fails
       THEN /\ genReq' = [genReq EXCEPT !.phase = "answered", !.ok = FALSE,
                                        !.detail = DetailText]
            /\ UNCHANGED gens
       ELSE LET ps == SortById(store)
                txt == GenerateLlmsTxt(ps, wallClock)
            IN /\ genReq' = [genReq EXCEPT !.phase = "answered", !.ok = TRUE,
                                           !.llms_txt = txt,
                                           !.agent_map = GenerateAgentMap(ps)]
               /\ gens' = [count |-> gens.count + 1,
                           last |-> [valid |-> TRUE, input |-> store, llms_txt |-> txt]]
    /\ UNCHANGED <<sitemap, isGenerating, generateError, wallClock>>
    /\ UNCHANGED <<activeTab, cmpVars, pxVars, scrapeVars, viewVars>>

\* Home renders one tab at a time: switching mounts and unmounts the
\* components of the tabs involved
SwitchTab(t) ==
    /\ activeTab' = t
    /\ IF t # activeTab /\ (activeTab = "proof" \/ t = "proof")
       THEN ComparePanelRemount
       ELSE UNCHANGED cmpVars
    /\ IF t # activeTab /\ (activeTab = "products" \/ t = "products")
       THEN ProductsTabRemount
       ELSE UNCHANGED scrapeVars

\* handleGenerate with setIsGenerating(false) at the end of the try block
\* instead of in finally
GenerateSettledNoFinally(thrown) ==
    /\ genReq.phase = "answered" \/ (thrown /\ genReq.phase = "sent")
    /\ genReq' = NoGenReq
    /\ isGenerating' = (thrown /\ isGenerating)
    /\ IF thrown
       THEN /\ generateError' = MsgCannotReachBackend
            /\ UNCHANGED <<sitemap, activeTab, cmpVars, scrapeVars>>
       ELSE IF genReq.ok
       THEN /\ sitemap' = [kind |-> "sitemap", llms_txt |-> genReq.llms_txt,
                           agent_map |-> genReq.agent_map]
            /\ SwitchTab("sitemap")
            /\ UNCHANGED generateError
       ELSE /\ generateError' = IF Truthy(genReq.detail) THEN genReq.detail
                                ELSE MsgGenerationFailed
            /\ UNCHANGED <<sitemap, activeTab, cmpVars, scrapeVars>>
    /\ UNCHANGED <<wallClock, gens>>
    /\ UNCHANGED <<pxVars, viewVars>>

\* handleGenerate after its await
GenerateSettled(thrown) ==
    /\ genReq.phase = "answered" \/ (thrown /\ genReq.phase = "sent")
    /\ genReq' = NoGenReq
    /\ isGenerating' = FALSE
    /\ IF thrown
       THEN /\ generateError' = MsgCannotReachBackend
            /\ UNCHANGED <<sitemap, activeTab, cmpVars, scrapeVars>>
       ELSE IF genReq.ok
       THEN /\ sitemap' = [kind |-> "sitemap", llms_txt |-> genReq.llms_txt,
                           agent_map |-> genReq.agent_map]
            /\ SwitchTab("sitemap")
            /\ UNCHANGED generateError
       ELSE /\ generateError' = IF Truthy(genReq.detail) THEN genReq.detail
                                ELSE MsgGenerationFailed
            /\ UNCHANGED <<sitemap, activeTab, cmpVars, scrapeVars>>
    /\ UNCHANGED <<wallClock, gens>>
    /\ UNCHANGED <<pxVars, viewVars>>

(***************************************************************************)
(* Home: the tab bar                                                       *)
(***************************************************************************)
SetActiveTab(t) ==
    /\ t # activeTab
    /\ SwitchTab(t)
    /\ UNCHANGED <<pxVars, genVars, viewVars>>

(***************************************************************************)
(* ProductCard: what it renders for a product                              *)
(***************************************************************************)
\* JSON values of a summary field
Undefined == [type |-> "undefined", n |-> 0, s |-> <<>>]
Num(n) == [type |-> "number", n |-> n, s |-> <<>>]
Str(s) == [type |-> "string", n |-> 0, s |-> s]

\* the staleness threshold 0.15 and the default confidence 0.5, in thousandths
StaleThreshold == 150
DefaultConfidence == 500

\* product.summary ?? {}
EmptySummary == [title |-> Undefined, confidence |-> Undefined,
                 stock_status |-> Undefined, sentiment |-> Undefined]
NoSummary == [present |-> FALSE, fields |-> EmptySummary]
SummaryOf(product) == IF product.summary.present THEN product.summary.fields
                      ELSE EmptySummary

\* truthiness of a summary field read as a string
FieldTruthy(v) == v.type = "string" /\ v.s # <<>>

\* line 256: typeof s.confidence === "number" ? s.confidence : 0.5
ConfidenceDefaultPercent(s) ==
    IF s.confidence.type = "number" THEN s.confidence.n ELSE 50000
Confidence(s) ==
    IF s.confidence.type = "number" THEN s.confidence.n ELSE DefaultConfidence

\* line 257: confidence < 0.15 || !s.title
IsStaleByConfidenceOnly(s) == Confidence(s) < StaleThreshold
IsStale(s) == Confidence(s) < StaleThreshold \/ ~FieldTruthy(s.title)

\* line 351: the bar's width, confidence * 100, in thousandths of a percent
BarWidth(s) == Confidence(s) * 100

\* line 355: Math.round(confidence * 100), in percent
RoundedPercent(s) == (Confidence(s) * 100 + 500) \div 1000

\* the keys of STOCK_STYLES and of SENTIMENT_COLORS, and the defaults the
\* lookups and the labels fall back to
IN_STOCK == <<"i","n","_","s","t","o","c","k">>
OUT_OF_STOCK == <<"o","u","t","_","o","f","_","s","t","o","c","k">>
UNKNOWN == <<"u","n","k","n","o","w","n">>
POSITIVE == <<"p","o","s","i","t","i","v","e">>
NEUTRAL == <<"n","e","u","t","r","a","l">>
NEGATIVE == <<"n","e","g","a","t","i","v","e">>
STOCK_STYLES == {IN_STOCK, OUT_OF_STOCK, UNKNOWN}
SENTIMENT_COLORS == {POSITIVE, NEUTRAL, NEGATIVE}

\* v ?? dflt, read as the key of a lookup
KeyOf(v, dflt) == IF v.type = "undefined" THEN dflt ELSE v.s

\* lines 252-255: TABLE[(v as string) ?? dflt] ?? TABLE[dflt], as the key
\* whose entry is chosen
Lookup(table, v, dflt) ==
    IF KeyOf(v, dflt) \in table THEN KeyOf(v, dflt) ELSE dflt
StockStyle(s) == Lookup(STOCK_STYLES, s.stock_status, UNKNOWN)
SentimentColor(s) == Lookup(SENTIMENT_COLORS, s.sentiment, NEUTRAL)

\* String.prototype.replace("_", " "): the first underscore only
RECURSIVE ReplaceFirstUnderscore(_)
ReplaceFirstUnderscore(t) ==
    IF t = <<>> THEN <<>>
    ELSE IF Head(t) = "_" THEN <<" ">> \o Tail(t)
    ELSE <<Head(t)>> \o ReplaceFirstUnderscore(Tail(t))

\* line 314: (s.stock_status as string)?.replace("_", " ") || "unknown"
StockLabel(s) ==
    IF FieldTruthy(s.stock_status)
    THEN ReplaceFirstUnderscore(s.stock_status.s)
    ELSE UNKNOWN

\* line 324: (s.sentiment as string) || "neutral"
SentimentLabel(s) ==
    IF FieldTruthy(s.sentiment) THEN s.sentiment.s ELSE NEUTRAL

Render(product) ==
    LET s == SummaryOf(product)
    IN [rendered |-> TRUE,
        confidence |-> Confidence(s),
        isStale |-> IsStale(s),
        staleWarning |-> IsStale(s),
        footerRescrape |-> ~IsStale(s),
        barWidth |-> BarWidth(s),
        percent |-> RoundedPercent(s),
        stockStyle |-> StockStyle(s),
        stockLabel |-> StockLabel(s),
        sentimentColor |-> SentimentColor(s),
        sentimentLabel |-> SentimentLabel(s)]

Unrendered ==
    [rendered |-> FALSE, confidence |-> 0, isStale |-> FALSE, staleWarning |-> FALSE,
     footerRescrape |-> FALSE, barWidth |-> 0, percent |-> 0,
     stockStyle |-> UNKNOWN, stockLabel |-> UNKNOWN,
     sentimentColor |-> NEUTRAL, sentimentLabel |-> NEUTRAL]

\* the summaries the Structured Summarizer can store: a confidence in
\* [0,1], below the staleness threshold when the title is empty
Titles == {<<>>, <<"T">>}
\* the confidences sampled: a grid over [0,1], the neighbours of the
\* threshold and of the rounding edges
ConfidenceGrid ==
    {c \in 0..1000 : c % 25 = 0} \cup {4, 5, 149, 151, 994, 995}
SummarizerOutputs ==
    {[present |-> TRUE,
      fields |-> [title |-> Str(t), confidence |-> Num(c),
                  stock_status |-> Str(UNKNOWN), sentiment |-> Str(NEUTRAL)]] :
        t \in Titles, c \in ConfidenceGrid} \
    {[present |-> TRUE,
      fields |-> [title |-> Str(<<>>), confidence |-> Num(c),
                  stock_status |-> Str(UNKNOWN), sentiment |-> Str(NEUTRAL)]] :
        c \in StaleThreshold..1000}

\* the stock_status and sentiment values a summary record can carry to the
\* card (its prop is Record<string, unknown>): the enum's values, a value
\* outside the enum with and without an underscore, the empty string, and
\* the field left out
StockValues ==
    {Str(k) : k \in STOCK_STYLES} \cup
    {Str(<<"s","o","l","d">>), Str(<<"p","r","e","_","o","r","d","e","r">>),
     Str(<<>>), Undefined}
SentimentValues ==
    {Str(k) : k \in SENTIMENT_COLORS} \cup {Str(<<"m","i","x","e","d">>), Str(<<>>), Undefined}
LabelledSummaries ==
    {[present |-> TRUE,
      fields |-> [title |-> Str(<<"T">>), confidence |-> Num(900),
                  stock_status |-> st, sentiment |-> se]] :
        st \in StockValues, se \in SentimentValues}

\* the products a card can be given
CardProducts ==
    {[id |-> 1, summary |-> sm] :
        sm \in SummarizerOutputs \cup LabelledSummaries \cup {NoSummary}}

ViewInit ==
    /\ cardProduct = [id |-> 1, summary |-> NoSummary]
    /\ cardView = Unrendered

\* a card is mounted for a product, or its product prop changes
RenderCard ==
    /\ cardView' = Render(cardProduct)
    /\ UNCHANGED cardProduct
    /\ UNCHANGED <<activeTab, cmpVars, pxVars, scrapeVars, genVars>>

\* the list refresh hands the card another product
ChangeProduct(p) ==
    /\ cardView.rendered
    /\ cardProduct' = p
    /\ cardView' = Render(p)
    /\ UNCHANGED <<activeTab, cmpVars, pxVars, scrapeVars, genVars>>

Init ==
    /\ activeTab = "products"
    /\ CmpInit
    /\ PxInit
    /\ ScrapeInit
    /\ GenInit
    /\ ViewInit

\* a card given any product the store can hold
InitCard ==
    /\ activeTab = "products"
    /\ CmpInit
    /\ PxInit
    /\ ScrapeInit
    /\ GenInit
    /\ cardProduct \in CardProducts
    /\ cardView = Unrendered

NextCompare ==
    \/ \E t \in TABS : SetActiveTab(t)
    \/ \E q \in TypedQuestions : SetQuestion(q)
    \/ ClickRunComparison
    \/ EnterRunComparison
    \/ \E q \in SAMPLE_QUESTIONS : ClickSampleQuestion(q)
    \/ \E r \in cmpReqs, o \in CompareOutcomes : CompareSettled(r, o)

\* the scrape path: the form, the cards' re-scrape, the backend, the list
NextScrape ==
    \/ \E u \in TypedUrls : SetUrl(u)
    \/ ClickSubmit
    \/ EnterSubmit
    \/ \E d \in DEMO_URLS : ClickDemoUrl(d)
    \/ \E r \in scrapeReqs, o \in PipelineOutcomes : BackendScrape(r, o)
    \/ \E r \in scrapeReqs, d \in {"forward", "timeout", "unreachable", "transport"} :
          FormSettled(r, d)
    \/ TimerFires
    \/ \E pid \in DOMAIN cardState : HandleRescrape(pid)
    \/ \E r \in scrapeReqs, d \in {"forward", "timeout", "unreachable", "transport"} :
          RescrapeSettled(r, d)
    \/ \E f \in BOOLEAN : BackendList(f)
    \/ \E a \in listAnswers : ListSettled(a)
    \/ ListUnreachable

\* the products tab as a whole: the scrape path, the cards' delete, and the
\* tab bar that mounts and unmounts the form and the cards
NextProducts ==
    \/ NextScrape
    \/ \E t \in TABS : SetActiveTab(t)
    \/ \E pid \in DOMAIN cardState : HandleDelete(pid)
    \/ \E r \in delReqs, f \in BOOLEAN : BackendDelete(r, f)
    \/ \E r \in delReqs, th \in BOOLEAN : DeleteSettled(r, th)

\* generating the artifacts: the store is filled by demo scrapes that
\* succeed, then the artifacts are generated from any of the three buttons
\* (a successful generation is what brings up the sitemap tab)
NextGenerate ==
    \/ \E d \in DEMO_URLS : ClickDemoUrl(d)
    \/ \E r \in scrapeReqs : BackendScrape(r, "ok")
    \/ \E r \in scrapeReqs : FormSettled(r, "forward")
    \/ BackendList(FALSE)
    \/ \E a \in listAnswers : ListSettled(a)
    \/ ClickHeaderGenerate
    \/ ClickProductsGenerate
    \/ ClickSitemapGenerate
    \/ ClockTick
    \/ \E f \in BOOLEAN : BackendGenerate(f)
    \/ \E th \in BOOLEAN : GenerateSettled(th)

\* Home as a whole around handleGenerate: the store is filled by scrapes of
\* the first demo URL that succeed, the artifacts are generated from any of
\* the three buttons and the tab bar switches between the tabs
NextHome ==
    \/ ClickDemoUrl(<<"a">>)
    \/ \E r \in scrapeReqs : BackendScrape(r, "ok")
    \/ \E r \in scrapeReqs : FormSettled(r, "forward")
    \/ BackendList(FALSE)
    \/ \E a \in listAnswers : ListSettled(a)
    \/ ClickHeaderGenerate
    \/ ClickProductsGenerate
    \/ ClickSitemapGenerate
    \/ \E f \in BOOLEAN : BackendGenerate(f)
    \/ \E th \in BOOLEAN : GenerateSettled(th)
    \/ \E t \in TABS : SetActiveTab(t)

NextCard ==
    \/ RenderCard
    \/ \E p \in CardProducts : ChangeProduct(p)

Spec == Init /\ [][NextProducts]_vars
SpecGenerate == Init /\ [][NextGenerate]_vars
SpecHome == Init /\ [][NextHome]_vars
SpecCard == InitCard /\ [][NextCard]_vars
SpecScrape == Init /\ [][NextScrape]_vars
SpecCompare == Init /\ [][NextCompare]_vars
SpecProxy == Init /\ [][NextProxy]_vars

C4_CompleteOrNone ==
    result # NoResult =>
        /\ {"question", "without_context", "with_context"} \subseteq DOMAIN result
        /\ result.req \in cmpHist.succeeded
        /\ result.req \notin cmpHist.failed
        /\ result.without_context.answer = <<"baseline">> \o result.question
        /\ result.with_context.answer = <<"grounded">> \o result.question

C4_Witness ==
    /\ result # NoResult
    /\ cmpHist.failed # {}
    /\ error # <<>>

(***************************************************************************)
(* Claims about the route handler                                          *)
(***************************************************************************)
\* C1: a backend call still unanswered at the 120 s limit is aborted and
\* answered 408 with the timed-out detail; every other failure caught is
\* answered 502 with a different detail; and no inbound request ever causes
\* more than one backend call.
C1_TimeoutDistinctNoRetry ==
    /\ pxCalls <= 1
    /\ (pxPhase \in {"fetching", "reading"}) => pxElapsed <= ProxyTimeoutMs
    /\ (pxPhase = "done" /\ pxErr = "TimeoutError") =>
           /\ pxReply.status = 408
           /\ pxReply.detail = DetailTimedOut
           /\ pxElapsed >= ProxyTimeoutMs
    /\ (pxPhase = "done" /\ pxErr \in {"TypeError", "SyntaxError"}) =>
           /\ pxReply.status = 502
           /\ pxReply.detail # DetailTimedOut
    /\ (pxPhase = "done" /\ pxReply.status = 408) => pxErr = "TimeoutError"

C1_Witness ==
    /\ pxPhase = "done"
    /\ pxErr = "TimeoutError"
    /\ pxReply.status = 408
    /\ pxCalls = 1
    /\ pxServed > 1

(***************************************************************************)
(* Claims about scraping                                                   *)
(***************************************************************************)
\* C2: at most one scrape is in flight per normalized URL: no two scrape
\* requests for the same normalized URL are outstanding at the backend at
\* the same time.
C2_OneScrapeInFlightPerUrl ==
    \A r1 \in scrapeReqs, r2 \in scrapeReqs :
        (/\ r1.phase = "sent"
         /\ r2.phase = "sent"
         /\ Normalize(r1.url) = Normalize(r2.url)) => r1 = r2

\* C5: no failure of an operation is handled without a message for the
\* user, the product list that stays empty while the backend is not yet
\* available excepted: no operation other than listing the products ever
\* has a failure swallowed.
C5_NoFailureSwallowed == hist.silent \subseteq {"list products"}

\* C6: a scrape sent by the form, or any scrape without force_refresh, for a
\* URL that is indexed when the backend serves it is a cache hit: the reply
\* is OK with cached set, the Summarizer is not invoked, the product and its
\* updated_at are unchanged; and the form reports it as "Already indexed".
C6_CacheHit ==
    /\ [](\A r \in scrapeReqs :
            (/\ r.phase = "answered"
             /\ r.src = "form" \/ ~r.force
             /\ r.ghost.wasIndexed) =>
                /\ r.reply.ok /\ r.reply.cached
                /\ r.ghost.sumCalls = 0
                /\ r.ghost.updAfter = r.ghost.updBefore
                /\ r.ghost.idAfter = r.ghost.idBefore
                /\ r.ghost.countAfter = r.ghost.countBefore)
    /\ [][\A r \in scrapeReqs :
            (/\ r.phase = "answered" /\ r.src = "form" /\ r.live
             /\ r.ghost.wasIndexed
             /\ FormSettled(r, "forward")) =>
                (status' = "success" /\ message' = MsgAlreadyIndexed)]_vars

C6_Witness ==
    /\ status = "success"
    /\ message = MsgAlreadyIndexed
    /\ store # {}
    /\ \A p \in store : p.updated_at = p.created_at

C8_GenerateDeterministic ==
    [][(/\ gens.last.valid
        /\ gens'.count = gens.count + 1
        /\ gens.last.input # {}
        /\ gens'.last.input = gens.last.input) =>
           gens'.last.llms_txt = gens.last.llms_txt]_vars

(***************************************************************************)
(* Claims about ProductCard                                                *)
(***************************************************************************)
\* C9: the confidence a card shows is within [0,1], its bar is between 0%
\* and 100% wide and its rounded percentage is between 0 and 100; a product
\* without a numeric confidence is shown at 50%.
C9_ConfidenceWithinRange ==
    cardView.rendered =>
        /\ cardView.confidence \in 0..1000
        /\ cardView.barWidth \in 0..100000
        /\ cardView.percent \in 0..100
        /\ SummaryOf(cardProduct).confidence.type # "number" =>
              (cardView.percent = 50 /\ cardView.barWidth = 50000)
        /\ SummaryOf(cardProduct).confidence.type = "number" =>
              cardView.barWidth = SummaryOf(cardProduct).confidence.n * 100

C9_Witness ==
    /\ cardView.rendered
    /\ ~cardProduct.summary.present
    /\ cardView.percent = 50

\* C10 as stated: a product whose summary has an empty or absent title, a
\* product without a summary included, is shown with a confidence below
\* 0.15 and is flagged stale.
C10_EmptyTitleLowConfidence ==
    (cardView.rendered /\ ~FieldTruthy(SummaryOf(cardProduct).title)) =>
        /\ cardView.confidence < StaleThreshold
        /\ cardView.isStale

\* C10: a product whose summary has an empty or absent title, a product
\* without a summary included, is flagged stale and shows the low-confidence
\* warning with its re-scrape action; its confidence is below 0.15 when the
\* summary is present, and is the default 0.5 when the summary is missing.
C10_EmptyTitleStale ==
    (cardView.rendered /\ ~FieldTruthy(SummaryOf(cardProduct).title)) =>
        /\ cardView.isStale
        /\ cardView.staleWarning
        /\ cardProduct.summary.present => cardView.confidence < StaleThreshold
        /\ ~cardProduct.summary.present => cardView.confidence = DefaultConfidence

C10_Witness ==
    /\ cardView.rendered
    /\ ~cardProduct.summary.present
    /\ cardView.isStale
    /\ cardView.confidence >= StaleThreshold

\* C11: for every stock_status outside {in_stock, out_of_stock, unknown} the
\* card shows the style and the label of 'unknown', and for every sentiment
\* outside {positive, neutral, negative} the colour and the label of
\* 'neutral'.
C11_OutOfEnumCoerced ==
    cardView.rendered =>
        LET s == SummaryOf(cardProduct)
        IN /\ KeyOf(s.stock_status, <<>>) \notin STOCK_STYLES =>
                /\ cardView.stockStyle = UNKNOWN
                /\ cardView.stockLabel = UNKNOWN
           /\ KeyOf(s.sentiment, <<>>) \notin SENTIMENT_COLORS =>
                /\ cardView.sentimentColor = NEUTRAL
                /\ cardView.sentimentLabel = NEUTRAL

(***************************************************************************)
(* Claims about Home                                                       *)
(***************************************************************************)
\* C12: when handleGenerate finishes, the generating flag is cleared; a call
\* that failed (non-OK response, unreachable backend, unreadable body) leaves
\* the product list, the sitemap and the active tab as they were and records
\* an error message; the sitemap is replaced only by a call whose response
\* was OK, and that call switches to the sitemap tab.
C12_FailedGenerateFrame ==
    [][/\ (genReq.phase # "none" /\ genReq'.phase = "none") =>
            /\ ~isGenerating'
            /\ \/ /\ genReq.phase = "answered" /\ genReq.ok
                  /\ sitemap' = [kind |-> "sitemap", llms_txt |-> genReq.llms_txt,
                                 agent_map |-> genReq.agent_map]
                  /\ activeTab' = "sitemap"
                  /\ generateError' = generateError
               \/ /\ products' = products
                  /\ sitemap' = sitemap
                  /\ activeTab' = activeTab
                  /\ generateError' # <<>>
            /\ ~(genReq.phase = "answered" /\ genReq.ok) =>
                  /\ sitemap' = sitemap /\ activeTab' = activeTab
                  /\ products' = products
                  /\ generateError' # <<>>
       /\ sitemap' # sitemap =>
            /\ genReq.phase = "answered" /\ genReq.ok
            /\ genReq'.phase = "none"
            /\ activeTab' = "sitemap"]_vars

\* a generation failed after an earlier one succeeded, while the user was on
\* another tab: the earlier sitemap is still there, the error is recorded
C12_Witness ==
    /\ generateError # <<>>
    /\ ~isGenerating
    /\ genReq.phase = "none"
    /\ sitemap # NoSitemap
    /\ Len(products) > 0
    /\ activeTab = "proof"

C14_GenerateOnlyWithProducts ==
    [][(genReq.phase = "none" /\ genReq'.phase = "sent") => Len(products) > 0]_vars

(***************************************************************************)
(* More claims about ComparePanel                                          *)
(***************************************************************************)
\* C15: a compare request is sent only from a state in which at least one
\* product is shown as indexed and a sitemap has been generated.
C15_CompareOnlyWithSitemap ==
    [][cmpHist'.sent > cmpHist.sent =>
          (Len(products) > 0 /\ sitemap # NoSitemap)]_vars

(***************************************************************************)
(* Claims about ScrapeForm                                                 *)
(***************************************************************************)
\* C16: whenever a scrape request of the mounted form is in flight, status is
\* 'loading' and the submit and demo buttons are disabled; and a success
\* message on display is never in the error style.
C16_LoadingWhileInFlight ==
    /\ (\E r \in scrapeReqs : r.src = "form" /\ r.live) =>
           (status = "loading" /\ SubmitDisabled /\ DemoDisabled)
    /\ (MessageShown /\ message \in {MsgIndexed, MsgAlreadyIndexed}) =>
           MessageStyle = "text-green-400"

\* C18: the compare panel never shows an error and a comparison result
\* together, and isLoading is true whenever a compare request of the mounted
\* panel is in flight.
C18_ErrorResultExclusive ==
    /\ ~(result # NoResult /\ error # <<>>)
    /\ (\E r \in cmpReqs : r.live) => isLoading

(***************************************************************************)
(* More claims about ProductCard and the product list                      *)
(***************************************************************************)
\* nothing is in flight: no scrape, re-scrape, delete or list request is
\* waiting for the backend or for its handler
Quiescent ==
    /\ scrapeReqs = {}
    /\ delReqs = {}
    /\ listSent = 0
    /\ listAnswers = {}

\* C17: a card does not stay busy: once the requests its delete or
\* re-scrape started, and the list refreshes that followed, have all
\* completed (the list refreshes all successfully), every card still in the
\* list is back in state 'idle'.  From such a state nothing but the user
\* changes a card's state, so a card that is busy there stays busy.
C17_CardNeverStuck ==
    (Quiescent /\ "list products" \notin hist.silent) =>
        \A pid \in DOMAIN cardState : cardState[pid] = "idle"

\* C19: once nothing is in flight any more and no re-scrape, delete or list
\* request has failed, the product list on display is the backend's product
\* list.  Stated for runs in which every scrape and every list request
\* succeeds and its response reaches the page.
C19_ListConverges ==
    (Quiescent /\ hist.silent = {}) => products = ListProducts

====
